---- MODULE Spec2Model ----
(***************************************************************************)
(* redirt: the tree walker (walk.rs), the tree differ (diff.rs) and the    *)
(* copy command (commands/copy.rs) as one state machine.                   *)
(*                                                                         *)
(* File names are modelled by their rank in byte order (1 < 2 < ...); a    *)
(* relative path is a sequence of names.  A file system tree is a function *)
(* from physical paths to nodes; <<>> is the root of the tree.             *)
(***************************************************************************)
EXTENDS Integers, Sequences, FiniteSets, TLC

VARIABLES
    fs,      \* [side -> tree]: the two directory trees on disk
    cwd,     \* where a relative path given to File::open resolves
    cfg,     \* the walk / diff configuration, fixed once the program runs
    work,    \* [side -> WWMemory.work]: the walk worker's stack, top first
    pend,    \* [side -> the item the worker is sending]
    wpc,     \* [side -> where the worker thread is]
    chan,    \* [side -> the sync_channel's buffer]
    rx,      \* [side -> whether the Receiver (the Walker) is alive]
    sent,    \* [side -> every item the worker has put on the channel]
    out,     \* what the consumer of the iterator has been handed
    eos,     \* the consumer has been handed None
    s_cur,   \* TreeDiff.s_cur: the source side's lookahead
    t_cur,   \* TreeDiff.t_cur: the target side's lookahead
    dpc,     \* where TreeDiff::find_next is
    spc,     \* where CopyCmd::run is
    n_seen,  \* how many items of the diff CopyCmd::run has taken
    n_files, \* CopyCmd::run's n_files
    n_dirs,  \* CopyCmd::run's n_dirs
    cp,      \* the fs::copy in progress
    nmut,    \* how many file system calls of this run changed the target
    erred,   \* a diff item was an error or a file system call failed
    run,     \* which run of the copy command this is
    stack,   \* a Stack<T> used on its own (stack.rs)
    calls    \* the calls made on stack so far, with what they returned

envvars == <<fs, cwd, cfg>>
wvars == <<work, pend, wpc, chan, rx, sent>>
cvars == <<out, eos>>
dvars == <<s_cur, t_cur, dpc>>
svars == <<spc, n_seen, n_files, n_dirs, cp, nmut, erred, run>>
kvars == <<stack, calls>>
vars == <<fs, cwd, cfg, work, pend, wpc, chan, rx, sent, out, eos, s_cur, t_cur, dpc,
          spc, n_seen, n_files, n_dirs, cp, nmut, erred, run, stack, calls>>

---------------------------------------------------------------------------
(* Bounds *)

\* sync_channel(self.buf_size): the buffer size, scaled down from
\* DEFAULT_BUFFER so that small trees fill the buffer.
BufSize == 2

\* The number of symbolic links the OS follows in one path resolution
\* before it fails with ELOOP (40 on Linux), scaled down.
MaxLinks == 2

\* The number of calls made on a Stack used on its own.
MaxCalls == 6

Sides == {"src", "tgt"}

\* File names by rank in byte order.  A name starting with "." sorts
\* before letters and digits.
Names == {1, 2}
HiddenNames == {1}

\* Physical paths: the root, its entries and their entries.
PhysPaths == {<<>>} \cup {<<a>> : a \in Names} \cup {<<a, b>> : a \in Names, b \in Names}

---------------------------------------------------------------------------
(* File system *)

NoNode == [kind |-> "none", size |-> 0, mtime |-> 0, data |-> <<>>]

NodeAt(tree, p) == IF p \in DOMAIN tree THEN tree[p] ELSE NoNode

\* "dirx" is a directory that cannot be listed (no read permission).
IsDirKind(k) == k \in {"dir", "dirx"}

ResolveFail == [ok |-> FALSE, phys |-> <<>>]

\* Path resolution by the OS, following every symbolic link on the way
\* (fs::metadata, read_dir): from directory d, along the components rest.
\* "linkdir" is a symbolic link to the root of the tree, "linkbad" a
\* dangling one, "linkfile" a symbolic link to a regular file outside the
\* tree (the node's data are that file's bytes).
RECURSIVE ResolveFrom(_, _, _, _)
ResolveFrom(tree, d, rest, hops) ==
    IF rest = <<>> THEN [ok |-> NodeAt(tree, d).kind # "none", phys |-> d]
    ELSE LET p == Append(d, Head(rest))
             k == NodeAt(tree, p).kind
         IN  IF ~IsDirKind(NodeAt(tree, d).kind) THEN ResolveFail
             ELSE IF k \in {"none", "linkbad"} THEN ResolveFail
             ELSE IF k = "linkdir"
                  THEN IF hops >= MaxLinks THEN ResolveFail
                       ELSE ResolveFrom(tree, <<>>, Tail(rest), hops + 1)
             ELSE ResolveFrom(tree, p, Tail(rest), hops)

Resolve(tree, path) == ResolveFrom(tree, <<>>, path, 0)

\* FileType of a node that was stat-ed without following a link.
TypeOf(k) ==
    CASE IsDirKind(k) -> "dir"
      [] k = "file" -> "file"
      [] k \in {"linkdir", "linkbad", "linkfile"} -> "symlink"
      [] OTHER -> "none"

NoEntry == [path |-> <<>>, file_type |-> "none", size |-> 0, mtime |-> 0]

\* Option<WalkEntry>
None == [some |-> FALSE, w |-> NoEntry]
Some(w) == [some |-> TRUE, w |-> w]

\* WalkEntry { path, file_type, size, mtime } built from a stat result.
MkEntry(path, node) ==
    [path |-> path, file_type |-> TypeOf(node.kind), size |-> node.size,
     mtime |-> node.mtime]

StatFail == [ok |-> FALSE, node |-> NoNode]

\* What a path that resolves to node n stands for once its last component
\* is followed: for a link to a file, that file.
Deref(n) ==
    IF n.kind = "linkfile"
    THEN [kind |-> "file", size |-> Len(n.data), mtime |-> n.mtime, data |-> n.data]
    ELSE n

\* fs::metadata(root.join(path)): stat following links.
Metadata(tree, path) ==
    LET r == Resolve(tree, path)
    IN  IF r.ok THEN [ok |-> TRUE, node |-> Deref(NodeAt(tree, r.phys))] ELSE StatFail

\* DirEntry::metadata(): stat of the entry itself, links not followed.
EntryMetadata(tree, dir, name) ==
    LET r == Resolve(tree, dir)
        n == IF r.ok THEN NodeAt(tree, Append(r.phys, name)) ELSE NoNode
    IN  IF n.kind # "none" THEN [ok |-> TRUE, node |-> n] ELSE StatFail

\* read_dir(root.join(path)): the names in the directory, or an error.
ReadDir(tree, path) ==
    LET r == Resolve(tree, path)
    IN  IF r.ok /\ NodeAt(tree, r.phys).kind = "dir"
        THEN [ok |-> TRUE,
              names |-> {n \in Names : NodeAt(tree, Append(r.phys, n)).kind # "none"}]
        ELSE [ok |-> FALSE, names |-> {}]

\* fsutils/unix.rs: a name is hidden when it starts with ".".
is_hidden(name) == name \in HiddenNames

\* No fs::copy is in progress.
NoCopy == [active |-> FALSE, path |-> <<>>, prev |-> NoNode]

\* Option<Box<Node<T>>>: None, or Some(Box::new(Node { data, next })).
Nil == [some |-> FALSE]
Node(data, next) == [some |-> TRUE, data |-> data, next |-> next]

\* Stack::new
new == [root |-> Nil]

\* Stack::is_empty: self.root.is_none()
is_empty(st) == ~st.root.some

\* Stack::push: the old root becomes the new node's next.
push(st, data) ==
    LET next == st.root
    IN  [root |-> Node(data, next)]

\* What a call returns (Option<T>: <<>> for None, <<x>> for Some(x)) and
\* the stack it leaves.
Returned(ret, st) == [ret |-> ret, stack |-> st]

\* A mutant of pop: the node stays the root.
pop_keep(st) ==
    IF st.root.some THEN Returned(<<st.root.data>>, st) ELSE Returned(<<>>, new)

\* Stack::pop: self.root.take().map(|n| { self.root = n.next; n.data })
pop(st) ==
    IF st.root.some
    THEN Returned(<<st.root.data>>, [root |-> st.root.next])
    ELSE Returned(<<>>, [root |-> Nil])

\* Stack::peek: self.root.as_ref().map(|n| &n.data)
peek(st) == IF st.root.some THEN <<st.root.data>> ELSE <<>>

\* No call is made on a Stack on its own.
NoStackCalls == stack = new /\ calls = <<>>

\* The copy command is not part of the program that runs.
NoCopyCmd ==
    /\ spc = "none" /\ n_seen = 0 /\ n_files = 0 /\ n_dirs = 0
    /\ cp = NoCopy /\ nmut = 0 /\ erred = FALSE /\ run = 0

---------------------------------------------------------------------------
(* Paths *)

\* Ord for Path: component by component, a proper prefix first.
RECURSIVE PathLess(_, _)
PathLess(p, q) ==
    IF q = <<>> THEN FALSE
    ELSE IF p = <<>> THEN TRUE
    ELSE IF Head(p) < Head(q) THEN TRUE
    ELSE IF Head(q) < Head(p) THEN FALSE
    ELSE PathLess(Tail(p), Tail(q))

Min(S) == CHOOSE x \in S : \A y \in S : x <= y
Max(S) == CHOOSE x \in S : \A y \in S : y <= x

\* A mutant of SortNames: the names in descending order.
RECURSIVE SortNamesDesc(_)
SortNamesDesc(S) ==
    IF S = {} THEN <<>> ELSE <<Max(S)>> \o SortNamesDesc(S \ {Max(S)})

\* entries.sort_by_key(|e| e.file_name()): ascending by name.
RECURSIVE SortNames(_)
SortNames(S) ==
    IF S = {} THEN <<>> ELSE <<Min(S)>> \o SortNames(S \ {Min(S)})

---------------------------------------------------------------------------
(* The walk worker (walk.rs) *)

\* WEntry, the entries of the worker's stack.
WScanDir(dir) == [t |-> "ScanDir", dir |-> dir, w |-> NoEntry, entries |-> <<>>]
WEmit(w) == [t |-> "Emit", dir |-> <<>>, w |-> w, entries |-> <<>>]
WProcess(dir, entries) == [t |-> "Process", dir |-> dir, w |-> NoEntry, entries |-> entries]

\* Stack<T>: push and pop at the root of the list.
Push(stk, x) == <<x>> \o stk

\* io::Result<WalkEntry> on the channel.
OkItem(w) == [ok |-> TRUE, w |-> w]
ErrItem == [ok |-> FALSE, w |-> NoEntry]
NoItem == [ok |-> FALSE, w |-> [NoEntry EXCEPT !.file_type = "empty"]]

\* WWMemory::next_task: the task to run and the stack it leaves.
next_task(stk) ==
    IF stk = <<>> THEN [t |-> "Finished", dir |-> <<>>, name |-> 0, w |-> NoEntry, work |-> stk]
    ELSE LET top == Head(stk)
             rest == Tail(stk)
         IN  CASE top.t = "ScanDir" ->
                    [t |-> "ScanDir", dir |-> top.dir, name |-> 0, w |-> NoEntry, work |-> rest]
               [] top.t = "Emit" ->
                    [t |-> "Emit", dir |-> <<>>, name |-> 0, w |-> top.w, work |-> rest]
               [] OTHER ->
                    IF top.entries # <<>>
                    THEN [t |-> "Process", dir |-> top.dir, name |-> Head(top.entries),
                          w |-> NoEntry,
                          work |-> Push(rest, WProcess(top.dir, Tail(top.entries)))]
                    ELSE [t |-> "Noop", dir |-> <<>>, name |-> 0, w |-> NoEntry, work |-> rest]

\* WWMemory::scan_dir: list, filter the hidden names, sort.
scan_dir(tree, c, path) ==
    LET r == ReadDir(tree, path)
    IN  [ok |-> r.ok,
         entries |-> SortNames({n \in r.names : c.include_hidden \/ ~is_hidden(n)})]

\* A mutant of scan_entry: with directories last, the directory's Emit is
\* pushed over its ScanDir.
scan_entry_emit_over(tree, c, stk, dir, name) ==
    LET path == Append(dir, name)
        meta == IF c.follow_symlinks THEN Metadata(tree, path)
                ELSE EntryMetadata(tree, dir, name)
        w == MkEntry(path, meta.node)
        isdir == w.file_type = "dir"
        stk1 == IF isdir THEN Push(stk, WScanDir(path)) ELSE stk
        stk2 == IF isdir /\ c.dirs = "Last" THEN Push(stk1, WEmit(w)) ELSE stk1
    IN  IF ~meta.ok THEN [ok |-> FALSE, some |-> FALSE, w |-> NoEntry, work |-> stk]
        ELSE [ok |-> TRUE,
              some |-> ~(isdir /\ c.dirs \in {"Last", "Never"}),
              w |-> w,
              work |-> stk2]

\* A mutant of scan_entry: with directories never emitted, a directory is
\* not walked either.
scan_entry_never_skips(tree, c, stk, dir, name) ==
    LET path == Append(dir, name)
        meta == IF c.follow_symlinks THEN Metadata(tree, path)
                ELSE EntryMetadata(tree, dir, name)
        w == MkEntry(path, meta.node)
        isdir == w.file_type = "dir"
        stk1 == IF isdir /\ c.dirs = "Last" THEN Push(stk, WEmit(w)) ELSE stk
        stk2 == IF isdir /\ c.dirs # "Never" THEN Push(stk1, WScanDir(path)) ELSE stk1
    IN  IF ~meta.ok THEN [ok |-> FALSE, some |-> FALSE, w |-> NoEntry, work |-> stk]
        ELSE [ok |-> TRUE,
              some |-> ~(isdir /\ c.dirs \in {"Last", "Never"}),
              w |-> w,
              work |-> stk2]

\* WWMemory::scan_entry: stat the entry, push the work for a directory;
\* the entry to send now (some), and the stack it leaves.
scan_entry(tree, c, stk, dir, name) ==
    LET path == Append(dir, name)
        meta == IF c.follow_symlinks THEN Metadata(tree, path)
                ELSE EntryMetadata(tree, dir, name)
        w == MkEntry(path, meta.node)
        isdir == w.file_type = "dir"
        stk1 == IF isdir /\ c.dirs = "Last" THEN Push(stk, WEmit(w)) ELSE stk
        stk2 == IF isdir THEN Push(stk1, WScanDir(path)) ELSE stk1
    IN  IF ~meta.ok THEN [ok |-> FALSE, some |-> FALSE, w |-> NoEntry, work |-> stk]
        ELSE [ok |-> TRUE,
              some |-> ~(isdir /\ c.dirs \in {"Last", "Never"}),
              w |-> w,
              work |-> stk2]

\* WWMemory::pump up to its send: ret is "send" (an entry to send), "zero"
\* (Ok(0)), "err" (the ? returned an error) or "fin" (Ok(-1)).
pump(tree, c, stk) ==
    LET task == next_task(stk)
    IN  CASE task.t = "ScanDir" ->
               LET r == scan_dir(tree, c, task.dir)
               IN  IF r.ok
                   THEN [ret |-> "zero", w |-> NoEntry,
                         work |-> Push(task.work, WProcess(task.dir, r.entries))]
                   ELSE [ret |-> "err", w |-> NoEntry, work |-> task.work]
          [] task.t = "Emit" -> [ret |-> "send", w |-> task.w, work |-> task.work]
          [] task.t = "Process" ->
               LET r == scan_entry(tree, c, task.work, task.dir, task.name)
               IN  IF ~r.ok THEN [ret |-> "err", w |-> NoEntry, work |-> r.work]
                   ELSE IF r.some THEN [ret |-> "send", w |-> r.w, work |-> r.work]
                   ELSE [ret |-> "zero", w |-> NoEntry, work |-> r.work]
          [] task.t = "Noop" -> [ret |-> "zero", w |-> NoEntry, work |-> task.work]
          [] OTHER -> [ret |-> "fin", w |-> NoEntry, work |-> task.work]

\* walk_worker's loop run to its end: every item it sends, in order.
RECURSIVE WalkItems(_, _, _)
WalkItems(tree, c, stk) ==
    LET r == pump(tree, c, stk)
    IN  CASE r.ret = "send" -> <<OkItem(r.w)>> \o WalkItems(tree, c, r.work)
          [] r.ret = "zero" -> WalkItems(tree, c, r.work)
          [] r.ret = "err" -> <<ErrItem>>
          [] OTHER -> <<>>

\* A mutant of AfterPump: Ok(-1) does not end the loop.
AfterPumpSpin(ret) ==
    CASE ret = "send" -> "send"
      [] ret = "err" -> "senderr"
      [] OTHER -> "pump"

\* Where the worker goes after pump's return value (walk_worker's match).
AfterPump(ret) ==
    CASE ret = "send" -> "send"
      [] ret = "zero" -> "pump"
      [] ret = "err" -> "senderr"
      [] OTHER -> "done"

\* One turn of walk_worker's loop, up to the point where it sends.
WorkerPump(s) ==
    /\ wpc[s] = "pump"
    /\ \E r \in {pump(fs[s], cfg, work[s])} :
           /\ work' = [work EXCEPT ![s] = r.work]
           /\ wpc' = [wpc EXCEPT ![s] = AfterPump(r.ret)]
           /\ pend' = [pend EXCEPT ![s] =
                          CASE r.ret = "send" -> OkItem(r.w)
                            [] r.ret = "err" -> ErrItem
                            [] OTHER -> NoItem]
    /\ UNCHANGED <<chan, rx, sent>>

\* A mutant of AfterSend: the worker reports the error and goes on.
AfterSendContinue(pc) == "pump"

\* Where the worker goes once a send has returned Ok: back to the loop
\* after an entry, out of walk_worker after the error.
AfterSend(pc) == IF pc = "senderr" THEN "failed" ELSE "pump"

\* A mutant of CanSend: an unbounded channel.
CanSendUnbounded(q) == TRUE

\* sync_channel: a send completes only when the buffer has room.
CanSend(q) == Len(q) < cfg.buf_size

\* chan.send(..).expect(..): blocks while the buffer is full; with the
\* receiver gone send returns Err and expect panics.
WorkerSend(s) ==
    /\ wpc[s] \in {"send", "senderr"}
    /\ \/ /\ rx[s] = "open"
          /\ CanSend(chan[s])
          /\ chan' = [chan EXCEPT ![s] = Append(@, pend[s])]
          /\ sent' = [sent EXCEPT ![s] = Append(@, pend[s])]
          /\ wpc' = [wpc EXCEPT ![s] = AfterSend(wpc[s])]
       \/ /\ rx[s] = "dropped"
          /\ wpc' = [wpc EXCEPT ![s] = "panicked"]
          /\ UNCHANGED <<chan, sent>>
    /\ pend' = [pend EXCEPT ![s] = NoItem]
    /\ UNCHANGED <<work, rx>>

\* The worker thread has ended and its SyncSender is dropped.
WorkerGone(s) == wpc[s] \in {"done", "failed", "panicked"}

\* A mutant of CanRecv: a receive that never waits (try_recv), so that an
\* empty buffer reads as the end of the walk.
CanRecvNoWait(s) == TRUE

\* channel.recv() can return: an item is buffered, or the sender is gone.
CanRecv(s) == chan[s] # <<>> \/ WorkerGone(s)

\* Walker::next: channel.recv().ok()
WalkerNext(s) ==
    /\ rx[s] = "open"
    /\ ~eos
    /\ CanRecv(s)
    /\ IF chan[s] # <<>>
       THEN /\ out' = Append(out, Head(chan[s]))
            /\ chan' = [chan EXCEPT ![s] = Tail(@)]
            /\ UNCHANGED eos
       ELSE /\ eos' = TRUE
            /\ UNCHANGED <<out, chan>>
    /\ UNCHANGED <<work, pend, wpc, rx, sent>>

\* The consumer drops the Walker, and with it the Receiver.
WalkerDrop(s) ==
    /\ rx[s] = "open"
    /\ rx' = [rx EXCEPT ![s] = "dropped"]
    /\ UNCHANGED <<work, pend, wpc, chan, sent, out, eos>>

---------------------------------------------------------------------------
(* Trees and configurations of a walk *)

FileNode == [kind |-> "file", size |-> 1, mtime |-> 1, data |-> <<0>>]
KindNode(k) ==
    CASE k = "none" -> NoNode
      [] k = "file" -> FileNode
      [] OTHER -> [kind |-> k, size |-> 0, mtime |-> 1, data |-> <<>>]

EmptyTree == [p \in PhysPaths |-> IF p = <<>> THEN KindNode("dir") ELSE NoNode]

TopKinds == {"none", "file", "dir", "dirx", "linkdir", "linkbad"}
ChildKinds == {"none", "file", "dir", "linkdir"}

\* The tree with top[a] at <<a>> and kids[a][b] at <<a, b>>.
MkTree(top, kids) ==
    [p \in PhysPaths |->
        IF p = <<>> THEN KindNode("dir")
        ELSE IF Len(p) = 1 THEN KindNode(top[p[1]])
        ELSE KindNode(kids[p[1]][p[2]])]

WalkShapes ==
    {x \in [Names -> TopKinds] \X [Names -> [Names -> ChildKinds]] :
        \A a \in Names : x[1][a] # "dir" => \A b \in Names : x[2][a][b] = "none"}

WalkTrees == {MkTree(x[1], x[2]) : x \in WalkShapes}

DirPosition == {"First", "Last", "Never"}

WalkConfigs ==
    [follow_symlinks : BOOLEAN, include_hidden : BOOLEAN, dirs : DirPosition,
     check_content : {FALSE}, buf_size : {BufSize}]

\* A Walker just started: the stack holds ScanDir("") (walk_worker).
InitWalk ==
    /\ \E t \in WalkTrees : fs = [src |-> t, tgt |-> EmptyTree]
    /\ cwd = "else"
    /\ cfg \in WalkConfigs
    /\ work = [src |-> <<WScanDir(<<>>)>>, tgt |-> <<>>]
    /\ pend = [s \in Sides |-> NoItem]
    /\ wpc = [src |-> "pump", tgt |-> "idle"]
    /\ chan = [s \in Sides |-> <<>>]
    /\ rx = [src |-> "open", tgt |-> "dropped"]
    /\ sent = [s \in Sides |-> <<>>]
    /\ out = <<>>
    /\ eos = FALSE
    /\ s_cur = None
    /\ t_cur = None
    /\ dpc = "idle"
    /\ NoCopyCmd
    /\ NoStackCalls

NextWalk ==
    \/ WorkerPump("src") /\ UNCHANGED <<kvars, envvars, cvars, dvars, svars>>
    \/ WorkerSend("src") /\ UNCHANGED <<kvars, envvars, cvars, dvars, svars>>
    \/ WalkerNext("src") /\ UNCHANGED <<kvars, envvars, dvars, svars>>
    \/ WalkerDrop("src") /\ UNCHANGED <<kvars, envvars, dvars, svars>>

\* One Walker and its consumer.
Spec == InitWalk /\ [][NextWalk]_vars

\* The steps of a walk whose consumer keeps pulling.
PumpStep == WorkerPump("src") /\ UNCHANGED <<kvars, envvars, cvars, dvars, svars>>
SendStep == WorkerSend("src") /\ UNCHANGED <<kvars, envvars, cvars, dvars, svars>>
PullStep == WalkerNext("src") /\ UNCHANGED <<kvars, envvars, dvars, svars>>

NextWalkPull == PumpStep \/ SendStep \/ PullStep

\* The trees of the walks that are followed to their end: a file or a
\* directory at 1, a symbolic link to the root or a file at 2, and in the
\* directory a symbolic link to the root, a file, both or nothing.
LiveShape(t) ==
    /\ t[<<1>>].kind \in {"file", "dir"} /\ t[<<2>>].kind \in {"linkdir", "file"}
    /\ t[<<1, 1>>].kind \in {"none", "linkdir"} /\ t[<<1, 2>>].kind \in {"none", "file"}
    /\ \A b \in Names : t[<<2, b>>].kind = "none"

InitWalkLive == InitWalk /\ cfg.include_hidden /\ LiveShape(fs["src"])

\* One Walker whose consumer never drops it: the worker thread runs when
\* it can (thread::spawn) and the consumer pulls when it can.
SpecWalkLive ==
    /\ InitWalkLive /\ [][NextWalkPull]_vars
    /\ WF_vars(PumpStep) /\ WF_vars(SendStep) /\ WF_vars(PullStep)

---------------------------------------------------------------------------
(* Claims about one Walker (Spec) *)

OutPaths == [i \in 1..Len(out) |-> out[i].w.path]
OutAllOk == \A i \in 1..Len(out) : out[i].ok

\* The entries the consumer received are in strictly ascending path order.
OutAscending ==
    \A i \in 1..Len(out) : \A j \in 1..Len(out) :
        (i < j /\ out[i].ok /\ out[j].ok) => PathLess(out[i].w.path, out[j].w.path)

\* No path was handed to the consumer twice.
OutDistinct ==
    \A i \in 1..Len(out) : \A j \in 1..Len(out) :
        (i < j /\ out[i].ok /\ out[j].ok) => out[i].w.path # out[j].w.path

\* C1 as stated: under every configuration the paths the consumer receives
\* are strictly increasing in segment-wise lexicographic order.
C1_AscendingAlways == OutAscending

\* C1 amended: with directories emitted first or never, the paths received
\* are strictly increasing; with directories emitted last a directory
\* follows its descendants, and still no path is received twice.
C1_AscendingUnlessDirsLast ==
    /\ cfg.dirs # "Last" => OutAscending
    /\ OutDistinct

\* A walk with directories first that reached its end after handing out a
\* nested entry among three or more.
C1_Witness ==
    /\ eos /\ cfg.dirs = "First" /\ OutAllOk /\ Len(out) >= 3
    /\ \E i \in 1..Len(out) : Len(out[i].w.path) >= 2

\* C6: when the consumer has dropped the Walker, the worker's failed send
\* ends the worker without a panic.
C6_NoPanicOnDrop == \A s \in Sides : wpc[s] # "panicked"

IsLast(q, i) == i = Len(q)

\* C7: a failed listing or stat ends the walk: the error is the last item
\* sent and the last received, there is one of it, every entry sent before
\* it is received before it, and end-of-sequence follows.
C7_ErrorIsLast ==
    /\ \A i \in 1..Len(sent["src"]) : ~sent["src"][i].ok => IsLast(sent["src"], i)
    /\ \A i \in 1..Len(out) : ~out[i].ok => IsLast(out, i)
    /\ out \o chan["src"] = sent["src"]
    /\ wpc["src"] = "failed" =>
          /\ sent["src"] # <<>>
          /\ ~sent["src"][Len(sent["src"])].ok
    /\ (eos /\ wpc["src"] = "failed") => out = sent["src"]

\* The consumer reached the end of a walk that failed after two entries.
C7_Witness ==
    /\ eos /\ wpc["src"] = "failed" /\ Len(out) >= 3
    /\ ~out[Len(out)].ok

\* C10: the channel never holds more than its capacity, and the consumer
\* is handed end-of-sequence only once the worker is gone and the channel
\* is drained.
C10_BoundedQueue ==
    /\ \A s \in Sides : Len(chan[s]) <= BufSize
    /\ eos => (WorkerGone("src") /\ chan["src"] = <<>>)

\* The worker waits to send while the channel is full.
C10_Witness ==
    /\ Len(chan["src"]) = BufSize /\ wpc["src"] = "send" /\ rx["src"] = "open"

\* d is a proper prefix of p and not the root.
IsAncestor(d, p) == d # <<>> /\ Len(d) < Len(p) /\ SubSeq(p, 1, Len(d)) = d

\* q is a sibling of p with a later name.
IsLaterSibling(p, q) ==
    /\ p # <<>> /\ Len(q) = Len(p)
    /\ SubSeq(q, 1, Len(q) - 1) = SubSeq(p, 1, Len(p) - 1)
    /\ p[Len(p)] < q[Len(q)]

\* The entries received so far.
OutOk == {i \in 1..Len(out) : out[i].ok}

\* A file a and a directory c that holds a file d (1, 2 and <<2, 1>>).
ScenarioTree == MkTree([a \in Names |-> IF a = 1 THEN "file" ELSE "dir"],
                       [a \in Names |-> [b \in Names |->
                            IF a = 2 /\ b = 1 THEN "file" ELSE "none"]])

WalkEnded == eos /\ wpc["src"] = "done"

\* C15: with directories first, a directory's entry is received before
\* the entry of any descendant; with directories last it is received
\* after the entries of all its descendants and before the entry of any
\* later sibling.  The tree a, c/, c/d is received as a, c, c/d and as
\* a, c/d, c.
C15_DirEmissionOrder ==
    /\ cfg.dirs = "First" =>
          \A j \in OutOk : \A n \in 1..(Len(out[j].w.path) - 1) :
              \E i \in OutOk : i < j /\ out[i].w.path = SubSeq(out[j].w.path, 1, n)
    /\ cfg.dirs = "Last" =>
          /\ \A i \in OutOk : \A j \in OutOk :
                IsAncestor(out[i].w.path, out[j].w.path) => j < i
          /\ \A i \in OutOk : \A k \in OutOk :
                IsLaterSibling(out[i].w.path, out[k].w.path) => i < k
          /\ WalkEnded =>
                \A j \in OutOk : \A n \in 1..(Len(out[j].w.path) - 1) :
                    \E i \in OutOk : out[i].w.path = SubSeq(out[j].w.path, 1, n)
    /\ (WalkEnded /\ fs["src"] = ScenarioTree /\ cfg.include_hidden) =>
          /\ cfg.dirs = "First" => OutPaths = << <<1>>, <<2>>, <<2, 1>> >>
          /\ cfg.dirs = "Last" => OutPaths = << <<1>>, <<2, 1>>, <<2>> >>

\* With directories last the tree a, c/, c/d was received as a, c/d, c.
C15_Witness ==
    /\ WalkEnded /\ cfg.dirs = "Last" /\ fs["src"] = ScenarioTree
    /\ OutPaths = << <<1>>, <<2, 1>>, <<2>> >>

\* An item that is not the entry of a directory.
NotDirItem(it) == ~it.ok \/ it.w.file_type # "dir"

\* What a walk of the source tree sends with directories emitted as d and
\* the rest of the configuration as it is.
WalkWithDirs(d) == WalkItems(fs["src"], [cfg EXCEPT !.dirs = d], <<WScanDir(<<>>)>>)

\* C16: what the consumer of a walk with directories never emitted has
\* received at the end is what a walk with directories first yields, less
\* its directory entries, in the same order; no directory entry is ever
\* received.  (The walk with directories first is itself what its
\* consumer receives.)
C16_NeverIsFirstLessDirs ==
    /\ (eos /\ cfg.dirs = "Never") => out = SelectSeq(WalkWithDirs("First"), NotDirItem)
    /\ (eos /\ cfg.dirs = "First") => out = WalkWithDirs("First")
    /\ cfg.dirs = "Never" => \A i \in 1..Len(out) : NotDirItem(out[i])

\* A walk with directories never emitted ended after it delivered an entry
\* of a directory that the walk with directories first does deliver.
C16_Witness ==
    /\ eos /\ cfg.dirs = "Never" /\ OutAllOk /\ Len(out) >= 2
    /\ \E i \in 1..Len(out) : Len(out[i].w.path) >= 2
    /\ Len(WalkWithDirs("First")) > Len(out)

\* The last item the worker sent is an error.
LastSentIsError ==
    sent["src"] # <<>> /\ ~sent["src"][Len(sent["src"])].ok

\* C21 as stated: when the consumer is handed end-of-sequence the worker's
\* stack has become empty and the worker has left its loop through Ok(-1).
C21_EndsWithEmptyStack ==
    eos => (work["src"] = <<>> /\ wpc["src"] = "done")

\* C21 amended: a walk whose consumer keeps pulling ends: the worker exits,
\* with its stack empty or after the error it sent, and the consumer is
\* handed end-of-sequence.
C21_WalkEnds ==
    <>(/\ eos /\ WorkerGone("src")
       /\ \/ wpc["src"] = "done" /\ work["src"] = <<>>
          \/ wpc["src"] = "failed" /\ LastSentIsError)

\* A walk that follows a symbolic link to the root came to its end after
\* entries below the link, through the error of the path resolution.
C21_Witness ==
    /\ eos /\ cfg.follow_symlinks /\ wpc["src"] = "failed"
    /\ \E a \in Names : fs["src"][<<a>>].kind = "linkdir"
    /\ \E i \in 1..Len(out) : out[i].ok /\ Len(out[i].w.path) >= 3

---------------------------------------------------------------------------
(* The tree differ (diff.rs) *)

\* The directory in which File::open resolves a relative path: the
\* process's working directory, which is one of the two roots or a
\* directory that holds nothing of either tree.
CwdTree == IF cwd \in Sides THEN fs[cwd] ELSE EmptyTree

\* File::open(path) and the reads through BufReader: the bytes of a regular
\* file, an error for a missing path or a directory.
OpenRead(path) ==
    LET r == Resolve(CwdTree, path)
        n == Deref(NodeAt(CwdTree, r.phys))
    IN  IF r.ok /\ n.kind = "file" THEN [ok |-> TRUE, data |-> n.data]
        ELSE [ok |-> FALSE, data |-> <<>>]

\* The loop of files_are_identical: byte by byte, in lock-step.
RECURSIVE BytesEqual(_, _)
BytesEqual(d1, d2) ==
    IF d1 # <<>> /\ d2 # <<>> /\ Head(d1) = Head(d2)
    THEN BytesEqual(Tail(d1), Tail(d2))
    ELSE d1 = <<>> /\ d2 = <<>>

\* files_are_identical(f1, f2): io::Result<bool>
files_are_identical(f1, f2) ==
    LET r1 == OpenRead(f1)
        r2 == OpenRead(f2)
    IN  IF r1.ok /\ r2.ok THEN [ok |-> TRUE, same |-> BytesEqual(r1.data, r2.data)]
        ELSE [ok |-> FALSE, same |-> FALSE]

\* io::Result<Option<DiffEntry>>
DEntry(kind, src, tgt, ty, mt, sz, ct) ==
    [ok |-> TRUE, kind |-> kind, src |-> src, tgt |-> tgt,
     ch_type |-> ty, ch_mtime |-> mt, ch_size |-> sz, ch_content |-> ct]
DErr == [DEntry("Err", NoEntry, NoEntry, FALSE, FALSE, FALSE, FALSE) EXCEPT !.ok = FALSE]
DNone == DEntry("None", NoEntry, NoEntry, FALSE, FALSE, FALSE, FALSE)
Present(src, tgt) == DEntry("Present", src, tgt, FALSE, FALSE, FALSE, FALSE)
Added(src) == DEntry("Added", src, NoEntry, FALSE, FALSE, FALSE, FALSE)
Removed(tgt) == DEntry("Removed", NoEntry, tgt, FALSE, FALSE, FALSE, FALSE)
Modified(src, tgt, ty, mt, sz, ct) == DEntry("Modified", src, tgt, ty, mt, sz, ct)

\* A mutant of Take: of two different paths the larger one is taken.
TakeLarger(sc, tc) ==
    CASE ~sc.some /\ ~tc.some -> [a |-> None, b |-> None, s_cur |-> sc, t_cur |-> tc]
      [] ~sc.some /\ tc.some -> [a |-> None, b |-> tc, s_cur |-> sc, t_cur |-> None]
      [] sc.some /\ ~tc.some -> [a |-> sc, b |-> None, s_cur |-> None, t_cur |-> tc]
      [] OTHER ->
           IF PathLess(tc.w.path, sc.w.path)
           THEN [a |-> sc, b |-> None, s_cur |-> None, t_cur |-> tc]
           ELSE IF PathLess(sc.w.path, tc.w.path)
           THEN [a |-> None, b |-> tc, s_cur |-> sc, t_cur |-> None]
           ELSE [a |-> sc, b |-> tc, s_cur |-> None, t_cur |-> None]

\* find_next, the first match: the lookaheads taken for this round (a from
\* s_cur, b from t_cur) and the lookaheads left.
Take(sc, tc) ==
    CASE ~sc.some /\ ~tc.some -> [a |-> None, b |-> None, s_cur |-> sc, t_cur |-> tc]
      [] ~sc.some /\ tc.some -> [a |-> None, b |-> tc, s_cur |-> sc, t_cur |-> None]
      [] sc.some /\ ~tc.some -> [a |-> sc, b |-> None, s_cur |-> None, t_cur |-> tc]
      [] OTHER ->
           IF PathLess(sc.w.path, tc.w.path)
           THEN [a |-> sc, b |-> None, s_cur |-> None, t_cur |-> tc]
           ELSE IF PathLess(tc.w.path, sc.w.path)
           THEN [a |-> None, b |-> tc, s_cur |-> sc, t_cur |-> None]
           ELSE [a |-> sc, b |-> tc, s_cur |-> None, t_cur |-> None]

\* A mutant of Classify: the contents are compared before the metadata
\* flags are looked at.
ClassifyEager(a, b) ==
    CASE ~a.some /\ ~b.some -> DNone
      [] a.some /\ ~b.some -> Added(a.w)
      [] ~a.some /\ b.some -> Removed(b.w)
      [] OTHER ->
           LET tgt == a.w
               src == b.w
               ch_type == src.file_type # tgt.file_type
               ch_mtime == src.mtime # tgt.mtime
               ch_size == src.size # tgt.size
               r == IF cfg.check_content THEN files_are_identical(src.path, tgt.path)
                    ELSE [ok |-> TRUE, same |-> TRUE]
           IN  IF ~r.ok THEN DErr
               ELSE IF ch_type \/ ch_mtime \/ ch_size
               THEN Modified(src, tgt, ch_type, ch_mtime, ch_size, ~r.same)
               ELSE IF ~r.same THEN Modified(src, tgt, FALSE, FALSE, FALSE, TRUE)
               ELSE Present(src, tgt)

\* A mutant of Classify: ch_size is computed from the modification times.
ClassifySizeFromMtime(a, b) ==
    CASE ~a.some /\ ~b.some -> DNone
      [] a.some /\ ~b.some -> Added(a.w)
      [] ~a.some /\ b.some -> Removed(b.w)
      [] OTHER ->
           LET tgt == a.w
               src == b.w
               ch_type == src.file_type # tgt.file_type
               ch_mtime == src.mtime # tgt.mtime
               ch_size == src.mtime # tgt.mtime
           IN  IF ch_type \/ ch_mtime \/ ch_size
               THEN Modified(src, tgt, ch_type, ch_mtime, ch_size, FALSE)
               ELSE IF cfg.check_content
               THEN LET r == files_are_identical(src.path, tgt.path)
                    IN  IF ~r.ok THEN DErr
                        ELSE IF ~r.same
                        THEN Modified(src, tgt, FALSE, FALSE, FALSE, TRUE)
                        ELSE Present(src, tgt)
               ELSE Present(src, tgt)

\* find_next, the second match, on the pair (a, b).  In its last arm the
\* pattern (Some(tgt), Some(src)) binds tgt to a and src to b.
Classify(a, b) ==
    CASE ~a.some /\ ~b.some -> DNone
      [] a.some /\ ~b.some -> Added(a.w)
      [] ~a.some /\ b.some -> Removed(b.w)
      [] OTHER ->
           LET tgt == a.w
               src == b.w
               ch_type == src.file_type # tgt.file_type
               ch_mtime == src.mtime # tgt.mtime
               ch_size == src.size # tgt.size
           IN  IF ch_type \/ ch_mtime \/ ch_size
               THEN Modified(src, tgt, ch_type, ch_mtime, ch_size, FALSE)
               ELSE IF cfg.check_content
               THEN LET r == files_are_identical(src.path, tgt.path)
                    IN  IF ~r.ok THEN DErr
                        ELSE IF ~r.same
                        THEN Modified(src, tgt, FALSE, FALSE, FALSE, TRUE)
                        ELSE Present(src, tgt)
               ELSE Present(src, tgt)

\* The value Iterator::next hands the consumer for find_next's result.
Deliver(res) ==
    IF res.kind = "None"
    THEN /\ eos' = TRUE
         /\ UNCHANGED out
    ELSE /\ out' = Append(out, res)
         /\ UNCHANGED eos

\* find_next: if self.s_cur.is_none() { self.s_cur = self.src.next().transpose()?; }
DiffPullS ==
    /\ dpc = "pull_s" /\ ~eos
    /\ rx["src"] = "open"
    /\ IF s_cur.some
       THEN /\ dpc' = "pull_t"
            /\ UNCHANGED <<s_cur, chan, out>>
       ELSE /\ CanRecv("src")
            /\ IF chan["src"] = <<>>
               THEN /\ dpc' = "pull_t"
                    /\ UNCHANGED <<s_cur, chan, out>>
               ELSE /\ chan' = [chan EXCEPT !["src"] = Tail(@)]
                    /\ IF Head(chan["src"]).ok
                       THEN /\ s_cur' = Some(Head(chan["src"]).w)
                            /\ dpc' = "pull_t"
                            /\ UNCHANGED out
                       ELSE /\ out' = Append(out, DErr)
                            /\ UNCHANGED <<s_cur, dpc>>
    /\ UNCHANGED <<t_cur, eos, work, pend, wpc, rx, sent>>

\* find_next: if self.t_cur.is_none() { self.t_cur = self.tgt.next().transpose()?; }
DiffPullT ==
    /\ dpc = "pull_t"
    /\ IF t_cur.some
       THEN /\ dpc' = "match"
            /\ UNCHANGED <<t_cur, chan, out>>
       ELSE /\ CanRecv("tgt")
            /\ IF chan["tgt"] = <<>>
               THEN /\ dpc' = "match"
                    /\ UNCHANGED <<t_cur, chan, out>>
               ELSE /\ chan' = [chan EXCEPT !["tgt"] = Tail(@)]
                    /\ IF Head(chan["tgt"]).ok
                       THEN /\ t_cur' = Some(Head(chan["tgt"]).w)
                            /\ dpc' = "match"
                            /\ UNCHANGED out
                       ELSE /\ out' = Append(out, DErr)
                            /\ dpc' = "pull_s"
                            /\ UNCHANGED t_cur
    /\ UNCHANGED <<s_cur, eos, work, pend, wpc, rx, sent>>

\* find_next from the first match to its return, and Iterator::next.
DiffMatch ==
    /\ dpc = "match"
    /\ LET tk == Take(s_cur, t_cur)
       IN  /\ s_cur' = tk.s_cur
           /\ t_cur' = tk.t_cur
           /\ Deliver(Classify(tk.a, tk.b))
    /\ dpc' = "pull_s"
    /\ UNCHANGED wvars

\* The consumer drops the TreeDiff between two pulls, and with it both
\* Walkers.
DiffDrop ==
    /\ dpc = "pull_s" /\ ~eos
    /\ rx["src"] = "open"
    /\ rx' = [s \in Sides |-> "dropped"]
    /\ UNCHANGED <<work, pend, wpc, chan, sent, cvars, dvars>>

\* Regular files and directories with their metadata.
File(m, d) == [kind |-> "file", size |-> Len(d), mtime |-> m, data |-> d]
Dir(m) == [kind |-> "dir", size |-> 0, mtime |-> m, data |-> <<>>]

\* A symbolic link to a regular file that holds the bytes d.
LinkFile(m, d) == [kind |-> "linkfile", size |-> 0, mtime |-> m, data |-> d]

\* The nodes at <<1>>, at <<2>> and at <<2, 1>> of the source tree and of
\* the target tree.
SrcNodes1 == {NoNode, File(1, <<0>>), File(2, <<0>>)}
SrcNodes2 == {NoNode, Dir(1), KindNode("dirx")}
TgtNodes1 == {NoNode, File(1, <<0>>), File(1, <<1>>), File(1, <<0, 0>>)}
TgtNodes2 == {NoNode, File(1, <<0>>), Dir(1), Dir(2), KindNode("dirx")}
Nodes21 == {NoNode, File(1, <<0>>)}

\* The tree with n1 at <<1>>, n2 at <<2>> and n21 at <<2, 1>>.
MkDiffTree(n1, n2, n21) ==
    [p \in PhysPaths |->
        CASE p = <<>> -> Dir(1)
          [] p = <<1>> -> n1
          [] p = <<2>> -> n2
          [] p = <<2, 1>> -> n21
          [] OTHER -> NoNode]

TreesOf(N1, N2, N21) ==
    {MkDiffTree(x[1], x[2], x[3]) :
        x \in {y \in N1 \X N2 \X N21 : y[3] # NoNode => y[2] = Dir(1)}}

DiffSrcTrees == TreesOf(SrcNodes1, SrcNodes2, Nodes21)
DiffTgtTrees == TreesOf(TgtNodes1, TgtNodes2, Nodes21)

\* A mutant of DiffConfigs: both walks with directories after their
\* entries.
DiffConfigsDirsLast ==
    [follow_symlinks : {FALSE}, include_hidden : {TRUE}, dirs : {"Last"},
     check_content : BOOLEAN, buf_size : {BufSize}]

\* TreeDiffBuilder: both walks with directories first.
DiffConfigs ==
    [follow_symlinks : {FALSE}, include_hidden : {TRUE}, dirs : {"First"},
     check_content : BOOLEAN, buf_size : {BufSize}]

\* TreeDiffBuilder::run: both Walkers started, both lookaheads empty.
InitDiff ==
    /\ \E ts \in DiffSrcTrees, tt \in DiffTgtTrees : fs = [src |-> ts, tgt |-> tt]
    /\ cfg \in DiffConfigs
    /\ cwd \in (IF cfg.check_content THEN {"src", "else"} ELSE {"else"})
    /\ work = [s \in Sides |-> <<WScanDir(<<>>)>>]
    /\ pend = [s \in Sides |-> NoItem]
    /\ wpc = [s \in Sides |-> "pump"]
    /\ chan = [s \in Sides |-> <<>>]
    /\ rx = [s \in Sides |-> "open"]
    /\ sent = [s \in Sides |-> <<>>]
    /\ out = <<>>
    /\ eos = FALSE
    /\ s_cur = None
    /\ t_cur = None
    /\ dpc = "pull_s"
    /\ NoCopyCmd
    /\ NoStackCalls

NextDiff ==
    \/ \E s \in Sides : WorkerPump(s) /\ UNCHANGED <<kvars, envvars, cvars, dvars, svars>>
    \/ \E s \in Sides : WorkerSend(s) /\ UNCHANGED <<kvars, envvars, cvars, dvars, svars>>
    \/ DiffPullS /\ UNCHANGED <<kvars, envvars, svars>>
    \/ DiffPullT /\ UNCHANGED <<kvars, envvars, svars>>
    \/ DiffMatch /\ UNCHANGED <<kvars, envvars, svars>>
    \/ DiffDrop /\ UNCHANGED <<kvars, envvars, svars>>

\* A TreeDiff over two Walkers, and its consumer.
SpecDiff == InitDiff /\ [][NextDiff]_vars

---------------------------------------------------------------------------
(* Claims about the differ (SpecDiff) *)

\* The relative path a DiffEntry is about.
EntryPath(e) == IF e.kind = "Removed" THEN e.tgt.path ELSE e.src.path

\* The relative paths of a finished walk.
WalkPaths(s) == {sent[s][i].w.path : i \in {j \in 1..Len(sent[s]) : sent[s][j].ok}}

\* The indices of the DiffEntry items about path p.
EntriesFor(p) == {i \in 1..Len(out) : out[i].ok /\ EntryPath(out[i]) = p}

BothWalksDone == wpc["src"] = "done" /\ wpc["tgt"] = "done"

\* C2: after two error-free walks have been pulled to end-of-sequence,
\* every path of either walk is in exactly one DiffEntry and no other path
\* is: Added for a source-only path, Removed for a target-only path,
\* Present or Modified for a path of both.
C2_UnionExactlyOnce ==
    (eos /\ BothWalksDone) =>
        /\ \A p \in WalkPaths("src") \cup WalkPaths("tgt") : Cardinality(EntriesFor(p)) = 1
        /\ \A i \in 1..Len(out) :
              /\ out[i].ok
              /\ out[i].kind = "Added" =>
                    EntryPath(out[i]) \in WalkPaths("src") \ WalkPaths("tgt")
              /\ out[i].kind = "Removed" =>
                    EntryPath(out[i]) \in WalkPaths("tgt") \ WalkPaths("src")
              /\ out[i].kind \in {"Present", "Modified"} =>
                    EntryPath(out[i]) \in WalkPaths("src") \cap WalkPaths("tgt")

\* Regular files at p in both trees, of equal size and modification time
\* and different bytes.
SameMetaOtherBytes(p) ==
    LET a == fs["src"][p]
        b == fs["tgt"][p]
    IN  /\ a.kind = "file" /\ b.kind = "file"
        /\ a.size = b.size /\ a.mtime = b.mtime
        /\ a.data # b.data

\* C4: for such a pair the differ emits Modified with changed_content alone
\* when check_content is on, and Present when it is off.
C4_ContentDecides ==
    (eos /\ BothWalksDone) =>
        \A p \in PhysPaths : SameMetaOtherBytes(p) =>
            \E i \in EntriesFor(p) :
                IF cfg.check_content
                THEN /\ out[i].kind = "Modified" /\ out[i].ch_content
                     /\ ~out[i].ch_type /\ ~out[i].ch_mtime /\ ~out[i].ch_size
                ELSE out[i].kind = "Present"

\* C8: once an input walk's error has been yielded, the differ yields no
\* further DiffEntry.  (With check_content off every error the differ
\* yields is an input walk's.)
C8_NoEntryAfterWalkError ==
    ~cfg.check_content =>
        \A i \in 1..Len(out) : \A j \in 1..Len(out) :
            (i < j /\ ~out[i].ok) => ~out[j].ok

\* C11: both walks being ascending, the paths of the DiffEntry items the
\* consumer is handed are strictly ascending.
C11_DiffAscending ==
    \A i \in 1..Len(out) : \A j \in 1..Len(out) :
        (i < j /\ out[i].ok /\ out[j].ok) =>
            PathLess(EntryPath(out[i]), EntryPath(out[j]))

\* A diff pulled to its end that interleaved an Added, a Removed and a
\* matched path.
C11_Witness ==
    /\ eos /\ BothWalksDone /\ Len(out) >= 3
    /\ \E i \in 1..Len(out) : out[i].ok /\ out[i].kind = "Added"
    /\ \E i \in 1..Len(out) : out[i].ok /\ out[i].kind = "Removed"
    /\ \E i \in 1..Len(out) : out[i].ok /\ out[i].kind \in {"Present", "Modified"}

\* The objects of the source tree (the root is not one).
Objects == {p \in PhysPaths \ {<<>>} : fs["src"][p].kind # "none"}

\* C12: for two identical trees the differ, pulled to its end, yields one
\* Present entry for each object and nothing else, whatever check_content.
C12_IdenticalOnlyPresent ==
    (eos /\ BothWalksDone /\ fs["src"] = fs["tgt"]) =>
        /\ \A i \in 1..Len(out) : out[i].ok /\ out[i].kind = "Present"
        /\ Len(out) = Cardinality(Objects)

\* The entry of path p in the walk of side s.
WalkEntryAt(s, p) ==
    LET i == CHOOSE j \in 1..Len(sent[s]) : sent[s][j].ok /\ sent[s][j].w.path = p
    IN  sent[s][i].w

\* Path p is in both walks with a different type, modification time or size.
MetaDiffers(p) ==
    /\ p \in WalkPaths("src") \cap WalkPaths("tgt")
    /\ LET a == WalkEntryAt("src", p)
           b == WalkEntryAt("tgt", p)
       IN  a.file_type # b.file_type \/ a.mtime # b.mtime \/ a.size # b.size

\* C13: in a Modified entry ch_content is set only with check_content on and
\* the three other flags off; a pair that differs in type, time or size is
\* classified without a byte comparison, so it is a Modified entry also
\* where the files cannot be opened.
C13_ContentFlagAlone ==
    /\ \A i \in 1..Len(out) :
          (out[i].ok /\ out[i].kind = "Modified") =>
              /\ out[i].ch_content =>
                    (cfg.check_content /\ ~out[i].ch_type /\ ~out[i].ch_mtime /\ ~out[i].ch_size)
              /\ (out[i].ch_type \/ out[i].ch_mtime \/ out[i].ch_size) => ~out[i].ch_content
    /\ (eos /\ BothWalksDone) =>
          \A p \in PhysPaths : MetaDiffers(p) =>
              \E i \in EntriesFor(p) :
                  /\ out[i].kind = "Modified" /\ ~out[i].ch_content
                  /\ out[i].ch_type \/ out[i].ch_mtime \/ out[i].ch_size

\* With check_content on and no file that can be opened, a pair that
\* differs in size was classified Modified.
C13_Witness ==
    /\ eos /\ BothWalksDone /\ cfg.check_content /\ cwd = "else"
    /\ \E i \in 1..Len(out) :
          out[i].ok /\ out[i].kind = "Modified" /\ out[i].ch_size /\ ~out[i].ch_content

\* Path p is a regular file in both walks.
BothFiles(p) ==
    /\ p \in WalkPaths("src") \cap WalkPaths("tgt")
    /\ WalkEntryAt("src", p).file_type = "file"
    /\ WalkEntryAt("tgt", p).file_type = "file"

DiffWorkerStep(s) ==
    (WorkerPump(s) \/ WorkerSend(s)) /\ UNCHANGED <<kvars, envvars, cvars, dvars, svars>>

DiffStep == (DiffPullS \/ DiffPullT \/ DiffMatch) /\ UNCHANGED <<kvars, envvars, svars>>

NextDiffPull == DiffWorkerStep("src") \/ DiffWorkerStep("tgt") \/ DiffStep

\* Source and target trees of several entries each, and a source whose
\* walk ends in an error.
LiveSrcTrees ==
    {MkDiffTree(File(2, <<0>>), Dir(1), File(1, <<0>>)),
     MkDiffTree(File(1, <<0>>), KindNode("dirx"), NoNode)}
LiveTgtTrees ==
    {MkDiffTree(File(1, <<0>>), Dir(1), NoNode),
     MkDiffTree(File(1, <<1>>), KindNode("dirx"), NoNode),
     MkDiffTree(NoNode, File(1, <<0>>), NoNode)}

\* sync_channel(self.buf_size) with every buffer size from 1 up.
LiveDiffConfigs ==
    [follow_symlinks : {FALSE}, include_hidden : {TRUE}, dirs : {"First"},
     check_content : BOOLEAN, buf_size : 1..BufSize]

InitDiffLive ==
    /\ \E ts \in LiveSrcTrees, tt \in LiveTgtTrees : fs = [src |-> ts, tgt |-> tt]
    /\ cfg \in LiveDiffConfigs
    /\ cwd = (IF cfg.check_content THEN "src" ELSE "else")
    /\ work = [s \in Sides |-> <<WScanDir(<<>>)>>]
    /\ pend = [s \in Sides |-> NoItem]
    /\ wpc = [s \in Sides |-> "pump"]
    /\ chan = [s \in Sides |-> <<>>]
    /\ rx = [s \in Sides |-> "open"]
    /\ sent = [s \in Sides |-> <<>>]
    /\ out = <<>>
    /\ eos = FALSE
    /\ s_cur = None
    /\ t_cur = None
    /\ dpc = "pull_s"
    /\ NoCopyCmd
    /\ NoStackCalls

\* Each thread runs when it can: the two workers and the consumer.
SpecDiffLive ==
    /\ InitDiffLive /\ [][NextDiffPull]_vars
    /\ WF_vars(DiffWorkerStep("src")) /\ WF_vars(DiffWorkerStep("tgt"))
    /\ WF_vars(DiffStep)

\* The entries a consumer gets from find_next called again and again on
\* the item sequences S and T of the two walks, with lookaheads sc and tc,
\* up to the first None.
RECURSIVE find_next_run(_, _, _, _)
find_next_run(S, T, sc, tc) ==
    IF ~sc.some /\ S # <<>> /\ ~Head(S).ok
    THEN <<DErr>> \o find_next_run(Tail(S), T, sc, tc)
    ELSE LET pullS == ~sc.some /\ S # <<>>
             sc1 == IF pullS THEN Some(Head(S).w) ELSE sc
             S1 == IF pullS THEN Tail(S) ELSE S
         IN  IF ~tc.some /\ T # <<>> /\ ~Head(T).ok
             THEN <<DErr>> \o find_next_run(S1, Tail(T), sc1, tc)
             ELSE LET pullT == ~tc.some /\ T # <<>>
                      tc1 == IF pullT THEN Some(Head(T).w) ELSE tc
                      T1 == IF pullT THEN Tail(T) ELSE T
                      tk == Take(sc1, tc1)
                      res == Classify(tk.a, tk.b)
                  IN  IF res.kind = "None"
                      THEN <<>>
                      ELSE <<res>> \o find_next_run(S1, T1, tk.s_cur, tk.t_cur)

\* The DiffEntry sequence of the two trees, computed in one thread from
\* the two complete walks.
DiffOfTrees ==
    find_next_run(WalkItems(fs["src"], cfg, <<WScanDir(<<>>)>>),
                  WalkItems(fs["tgt"], cfg, <<WScanDir(<<>>)>>), None, None)

IsPrefix(a, b) == Len(a) <= Len(b) /\ SubSeq(b, 1, Len(a)) = a

\* C22: for two fixed trees and every buffer size from 1 up, under every
\* interleaving of the two workers and the consumer, what the Differ has
\* emitted is always a prefix of one and the same DiffEntry sequence, and
\* the Differ eventually reaches end-of-sequence having emitted exactly
\* that sequence (no deadlock).
C22_OneSequenceNoDeadlock ==
    /\ [](IsPrefix(out, DiffOfTrees))
    /\ <>(eos /\ out = DiffOfTrees)

\* With buffer size 1 and walks of several entries the Differ has reached
\* end-of-sequence.
C22_Witness ==
    /\ eos /\ cfg.buf_size = 1
    /\ Len(sent["src"]) >= 3 /\ Len(sent["tgt"]) >= 2
    /\ Len(out) >= 3 /\ out = DiffOfTrees

\* The matched pair of out[i] has different types, or two directories.
TypesDifferOrDirs(i) ==
    /\ out[i].ok /\ out[i].kind \in {"Present", "Modified"}
    /\ \/ out[i].src.file_type # out[i].tgt.file_type
       \/ out[i].src.file_type = "dir" /\ out[i].tgt.file_type = "dir"

\* C23: for a matched pair whose types differ or are both directory the
\* entry never has ch_mtime or ch_size set: two directories are Present,
\* a type mismatch is Modified with ch_type alone.
C23_NoMetaFlagsOffFiles ==
    \A i \in 1..Len(out) :
        TypesDifferOrDirs(i) =>
            /\ ~out[i].ch_mtime /\ ~out[i].ch_size
            /\ IF out[i].src.file_type = out[i].tgt.file_type
               THEN out[i].kind = "Present"
               ELSE out[i].kind = "Modified" /\ out[i].ch_type

\* C25: in every Present and Modified entry src is the entry the source
\* walk sent for the path and tgt the entry the target walk sent; Added
\* carries the source walk's entry and Removed the target walk's.
C25_SidesAsNamed ==
    \A i \in 1..Len(out) :
        out[i].ok =>
            LET p == EntryPath(out[i])
            IN  CASE out[i].kind \in {"Present", "Modified"} ->
                       /\ p \in WalkPaths("src") \cap WalkPaths("tgt")
                       /\ out[i].src = WalkEntryAt("src", p)
                       /\ out[i].tgt = WalkEntryAt("tgt", p)
                  [] out[i].kind = "Added" ->
                       p \in WalkPaths("src") /\ out[i].src = WalkEntryAt("src", p)
                  [] OTHER ->
                       p \in WalkPaths("tgt") /\ out[i].tgt = WalkEntryAt("tgt", p)

---------------------------------------------------------------------------
(* The copy command (commands/copy.rs) *)

Times == {1, 2}

\* The time on the clock while the copy command runs, later than the
\* modification time of everything in the trees it starts from.
Now == Max(Times) + 1

Parent(p) == SubSeq(p, 1, Len(p) - 1)
IsUnder(p, d) == Len(d) <= Len(p) /\ SubSeq(p, 1, Len(d)) = d

\* A change of the entries of directory d sets d's modification time.
Touch(tree, d) == [tree EXCEPT ![d] = [@ EXCEPT !.mtime = Now]]

\* The parent directory of p exists (the root's parent always does).
HasParent(tree, p) == p = <<>> \/ NodeAt(tree, Parent(p)).kind = "dir"

\* What a file system call can do: fail and change nothing, or, where the
\* tree allows it, succeed.
Failed(tree) == [ok |-> FALSE, tree |-> tree]
Done(tree) == [ok |-> TRUE, tree |-> tree]

SetNode(tree, p, n) ==
    IF p = <<>> THEN [tree EXCEPT ![p] = n]
    ELSE Touch([tree EXCEPT ![p] = n], Parent(p))

\* fs::create_dir(path): not recursive, the path must not exist.
CreateDir(tree, p) ==
    {Failed(tree)} \cup
    (IF p \in DOMAIN tree /\ tree[p].kind = "none" /\ HasParent(tree, p)
     THEN {Done(SetNode(tree, p, Dir(Now)))} ELSE {})

\* fs::remove_file(path): unlinks a file or a symbolic link.
RemoveFile(tree, p) ==
    {Failed(tree)} \cup
    (IF NodeAt(tree, p).kind \in {"file", "linkdir", "linkbad", "linkfile"}
     THEN {Done(SetNode(tree, p, NoNode))} ELSE {})

\* fs::remove_dir_all(path): removes a directory and all below it, unlinks
\* a symbolic link, fails on a regular file.
RemoveDirAll(tree, p) ==
    {Failed(tree)} \cup
    (IF NodeAt(tree, p).kind = "dir"
     THEN {Done(SetNode([q \in DOMAIN tree |-> IF IsUnder(q, p) THEN NoNode ELSE tree[q]],
                        p, NoNode))}
     ELSE IF NodeAt(tree, p).kind \in {"linkdir", "linkbad", "linkfile"}
     THEN {Done(SetNode(tree, p, NoNode))}
     ELSE {})

\* WalkEntry::is_directory / is_file
is_directory(w) == w.file_type = "dir"
is_file(w) == w.file_type = "file"

\* What the loop body of CopyCmd::run does for a DiffEntry, up to its
\* fs::copy: "next" (on to the next entry), "copy" (fs::copy follows) or
\* "fail" (return Err); the target tree it leaves, the directories it
\* counted and the calls that changed the tree.
Outcome(st, tree, dd, dm) == [st |-> st, tree |-> tree, dd |-> dd, dm |-> dm]

HandleAdded(e, tree) ==
    IF is_directory(e.src)
    THEN {IF r.ok THEN Outcome("next", r.tree, 1, 1) ELSE Outcome("fail", r.tree, 0, 0) :
            r \in CreateDir(tree, e.src.path)}
    ELSE IF is_file(e.src) THEN {Outcome("copy", tree, 0, 0)}
    ELSE {Outcome("fail", tree, 0, 0)}

HandleModified(e, tree) ==
    LET p == e.tgt.path
        R1 == IF ~e.ch_type THEN {Done(tree)}
              ELSE IF is_directory(e.tgt) THEN RemoveDirAll(tree, p)
              ELSE RemoveFile(tree, p)
        After1(r1) ==
            IF ~r1.ok THEN {Outcome("fail", r1.tree, 0, 0)}
            ELSE LET m1 == IF e.ch_type THEN 1 ELSE 0
                     R2 == IF e.ch_type /\ is_directory(e.src)
                           THEN CreateDir(r1.tree, p) ELSE {Done(r1.tree)}
                     After2(r2) ==
                         IF ~r2.ok THEN Outcome("fail", r2.tree, 0, m1)
                         ELSE LET made == e.ch_type /\ is_directory(e.src)
                                  dd == IF made THEN 1 ELSE 0
                              IN  IF ~is_file(e.src)
                                  THEN Outcome("fail", r2.tree, dd, m1 + dd)
                                  ELSE Outcome("copy", r2.tree, dd, m1 + dd)
                 IN  {After2(r2) : r2 \in R2}
    IN  UNION {After1(r1) : r1 \in R1}

\* A mutant of Handle: a path of the destination alone is removed.
HandleRemoving(e, tree) ==
    CASE e.kind = "Present" -> {Outcome("next", tree, 0, 0)}
      [] e.kind = "Added" -> HandleAdded(e, tree)
      [] e.kind = "Removed" ->
           {IF r.ok THEN Outcome("next", r.tree, 0, 1) ELSE Outcome("fail", r.tree, 0, 0) :
              r \in (IF is_directory(e.tgt) THEN RemoveDirAll(tree, e.tgt.path)
                     ELSE RemoveFile(tree, e.tgt.path))}
      [] OTHER -> HandleModified(e, tree)

Handle(e, tree) ==
    CASE e.kind = "Present" -> {Outcome("next", tree, 0, 0)}
      [] e.kind = "Added" -> HandleAdded(e, tree)
      [] e.kind = "Removed" -> {Outcome("next", tree, 0, 0)}
      [] OTHER -> HandleModified(e, tree)

\* A mutant of OnError: the error is logged and the loop goes on.
OnErrorContinue == "loop"

\* Where CopyCmd::run goes when a ? meets an error: it returns.
OnError == "failed"

\* CopyCmd::run returns: the diff and both Walkers are dropped.
DropAll == rx' = [s \in Sides |-> "dropped"]

\* A mutant of ensure_dest: a destination that is not a directory is
\* accepted.
ensure_dest_lenient(tree) ==
    LET k == tree[<<>>].kind
    IN  IF k = "none" THEN CreateDir(tree, <<>>) ELSE {Done(tree)}

\* CopyCmd::ensure_dest: Ok for a directory, an error for anything else
\* that exists, fs::create_dir for a destination that is not there.
ensure_dest(tree) ==
    LET k == tree[<<>>].kind
    IN  IF k = "dir" THEN {Done(tree)}
        ELSE IF k = "none" THEN CreateDir(tree, <<>>)
        ELSE {Failed(tree)}

\* self.ensure_dest()?, then the two walks and the diff are started.
SyncEnsureDest ==
    /\ spc = "ensure"
    /\ \E r \in ensure_dest(fs["tgt"]) :
        /\ fs' = [fs EXCEPT !["tgt"] = r.tree]
        /\ nmut' = nmut + (IF r.tree # fs["tgt"] THEN 1 ELSE 0)
        /\ IF r.ok
           THEN /\ spc' = "loop"
                /\ work' = [s \in Sides |-> <<WScanDir(<<>>)>>]
                /\ wpc' = [s \in Sides |-> "pump"]
                /\ rx' = [s \in Sides |-> "open"]
                /\ dpc' = "pull_s"
                /\ UNCHANGED erred
           ELSE /\ spc' = OnError
                /\ erred' = TRUE
                /\ UNCHANGED <<work, wpc, rx, dpc>>
    /\ UNCHANGED <<kvars, cwd, cfg, pend, chan, sent, out, eos, s_cur, t_cur,
                   n_seen, n_files, n_dirs, cp, run>>

\* The body of the for loop for the next item of the diff.
SyncHandle ==
    /\ spc = "loop" /\ n_seen < Len(out)
    /\ LET e == out[n_seen + 1]
       IN  IF ~e.ok
           THEN /\ spc' = OnError
                /\ erred' = TRUE
                /\ n_seen' = n_seen + 1
                /\ IF spc' = "failed" THEN DropAll ELSE UNCHANGED rx
                /\ UNCHANGED <<fs, n_dirs, nmut, cp>>
           ELSE \E o \in Handle(e, fs["tgt"]) :
                  /\ fs' = [fs EXCEPT !["tgt"] = o.tree]
                  /\ n_dirs' = n_dirs + o.dd
                  /\ nmut' = nmut + o.dm
                  /\ CASE o.st = "next" ->
                            /\ spc' = "loop" /\ n_seen' = n_seen + 1
                            /\ UNCHANGED <<cp, erred, rx>>
                       [] o.st = "copy" ->
                            /\ spc' = "copy_open"
                            /\ cp' = [active |-> TRUE, path |-> EntryPath(e),
                                      prev |-> NodeAt(o.tree, EntryPath(e))]
                            /\ UNCHANGED <<n_seen, erred, rx>>
                       [] OTHER ->
                            /\ spc' = OnError
                            /\ erred' = TRUE
                            /\ n_seen' = n_seen + 1
                            /\ IF spc' = "failed" THEN DropAll ELSE UNCHANGED rx
                            /\ UNCHANGED cp
    /\ UNCHANGED <<kvars, cwd, cfg, work, pend, wpc, chan, sent, out, eos, dvars,
                   n_files, run>>

\* fs::copy(&src_path, &dst_path), its start: the source is opened, the
\* destination is created or truncated in place.
SyncCopyOpen ==
    /\ spc = "copy_open"
    /\ LET p == cp.path
           from == Metadata(fs["src"], p)
           to == NodeAt(fs["tgt"], p)
           can == /\ from.ok /\ from.node.kind = "file"
                  /\ to.kind \in {"none", "file"}
                  /\ HasParent(fs["tgt"], p)
       IN  \/ /\ can
              /\ fs' = [fs EXCEPT !["tgt"] =
                           IF to.kind = "none" THEN SetNode(@, p, File(Now, <<>>))
                           ELSE [@ EXCEPT ![p] = File(Now, <<>>)]]
              /\ nmut' = nmut + 1
              /\ spc' = "copy_write"
              /\ UNCHANGED <<erred, rx, n_seen>>
           \/ /\ spc' = OnError
              /\ erred' = TRUE
              /\ n_seen' = n_seen + 1
              /\ IF spc' = "failed" THEN DropAll ELSE UNCHANGED rx
              /\ UNCHANGED <<fs, nmut>>
    /\ UNCHANGED <<kvars, cwd, cfg, work, pend, wpc, chan, sent, out, eos, dvars,
                   n_files, n_dirs, cp, run>>

\* fs::copy goes on: the next byte is written to the destination; after
\* the last one fs::copy returns and n_files is counted.
SyncCopyWrite ==
    /\ spc = "copy_write"
    /\ LET p == cp.path
           from == Metadata(fs["src"], p).node.data
           have == NodeAt(fs["tgt"], p).data
           next == IF Len(have) < Len(from)
                   THEN Append(have, from[Len(have) + 1]) ELSE have
       IN  \/ /\ fs' = [fs EXCEPT !["tgt"][p] = File(Now, next)]
              /\ IF Len(next) = Len(from)
                 THEN /\ spc' = "loop"
                      /\ n_seen' = n_seen + 1
                      /\ n_files' = n_files + 1
                      /\ cp' = NoCopy
                 ELSE UNCHANGED <<spc, n_seen, n_files, cp>>
              /\ UNCHANGED <<erred, rx>>
           \/ /\ spc' = OnError
              /\ erred' = TRUE
              /\ n_seen' = n_seen + 1
              /\ IF spc' = "failed" THEN DropAll ELSE UNCHANGED rx
              /\ UNCHANGED <<fs, n_files, cp>>
    /\ UNCHANGED <<kvars, cwd, cfg, work, pend, wpc, chan, sent, out, eos, dvars,
                   n_dirs, nmut, run>>

\* The diff is exhausted: CopyCmd::run returns Ok(()).
SyncEnd ==
    /\ spc = "loop" /\ n_seen = Len(out) /\ eos
    /\ spc' = "done"
    /\ DropAll
    /\ UNCHANGED <<kvars, envvars, work, pend, wpc, chan, sent, cvars, dvars,
                   n_seen, n_files, n_dirs, cp, nmut, erred, run>>

\* The copy command is run once more on the same two roots.
SyncRerun ==
    /\ spc = "done" /\ run = 1
    /\ run' = 2
    /\ spc' = "ensure"
    /\ work' = [s \in Sides |-> <<>>]
    /\ pend' = [s \in Sides |-> NoItem]
    /\ wpc' = [s \in Sides |-> "idle"]
    /\ chan' = [s \in Sides |-> <<>>]
    /\ sent' = [s \in Sides |-> <<>>]
    /\ out' = <<>> /\ eos' = FALSE
    /\ s_cur' = None /\ t_cur' = None /\ dpc' = "idle"
    /\ n_seen' = 0 /\ n_files' = 0 /\ n_dirs' = 0 /\ nmut' = 0
    /\ UNCHANGED <<kvars, envvars, rx, cp, erred>>

\* The diff is pulled by the for loop once the last item is dealt with.
SyncPull == spc = "loop" /\ n_seen = Len(out) /\ DiffPullS

SyncSrcNodes1 == {NoNode, File(1, <<0, 0>>)}
SyncSrcNodes2 == {NoNode, Dir(1), File(1, <<0>>), KindNode("linkbad"), LinkFile(1, <<0>>)}
SyncTgtNodes1 == {NoNode, File(1, <<0, 0>>), File(1, <<1>>)}
SyncTgtNodes2 == {NoNode, Dir(1), File(1, <<0>>)}

SyncSrcTrees == TreesOf(SyncSrcNodes1, SyncSrcNodes2, Nodes21)

\* The destination root is a directory, is absent or is a regular file.
SyncTgtTrees ==
    TreesOf(SyncTgtNodes1, SyncTgtNodes2, Nodes21)
    \cup {[EmptyTree EXCEPT ![<<>>] = NoNode], [EmptyTree EXCEPT ![<<>>] = File(1, <<0>>)]}

\* CopyCmd::run is entered; neither walk has been started.
InitSync ==
    /\ \E ts \in SyncSrcTrees, tt \in SyncTgtTrees : fs = [src |-> ts, tgt |-> tt]
    /\ cfg \in DiffConfigs
    /\ cwd \in (IF cfg.check_content THEN {"src", "else"} ELSE {"else"})
    /\ work = [s \in Sides |-> <<>>]
    /\ pend = [s \in Sides |-> NoItem]
    /\ wpc = [s \in Sides |-> "idle"]
    /\ chan = [s \in Sides |-> <<>>]
    /\ rx = [s \in Sides |-> "dropped"]
    /\ sent = [s \in Sides |-> <<>>]
    /\ out = <<>>
    /\ eos = FALSE
    /\ s_cur = None
    /\ t_cur = None
    /\ dpc = "idle"
    /\ spc = "ensure" /\ n_seen = 0 /\ n_files = 0 /\ n_dirs = 0
    /\ cp = NoCopy /\ nmut = 0 /\ erred = FALSE /\ run = 1
    /\ NoStackCalls

NextSync ==
    \/ \E s \in Sides : WorkerPump(s) /\ UNCHANGED <<kvars, envvars, cvars, dvars, svars>>
    \/ \E s \in Sides : WorkerSend(s) /\ UNCHANGED <<kvars, envvars, cvars, dvars, svars>>
    \/ SyncPull /\ UNCHANGED <<kvars, envvars, svars>>
    \/ DiffPullT /\ UNCHANGED <<kvars, envvars, svars>>
    \/ DiffMatch /\ UNCHANGED <<kvars, envvars, svars>>
    \/ SyncEnsureDest
    \/ SyncHandle
    \/ SyncCopyOpen
    \/ SyncCopyWrite
    \/ SyncEnd
    \/ SyncRerun

\* The copy command over a TreeDiff over two Walkers, run twice.
SpecSync == InitSync /\ [][NextSync]_vars

---------------------------------------------------------------------------
(* Claims about the copy command (SpecSync) *)

\* Every path of the target tree is a path of the source tree, and the
\* source tree holds regular files only.
OnlySourceFiles ==
    \A p \in PhysPaths \ {<<>>} :
        /\ fs["tgt"][p].kind # "none" => fs["src"][p].kind # "none"
        /\ fs["src"][p].kind \in {"none", "file"}

\* C3, for a source of regular files and a destination with no path of its
\* own: after a successful run the second run's diff holds only Present
\* entries and the second run copies, creates and removes nothing.
C3_SecondRunOnlyPresent ==
    (run = 2 /\ OnlySourceFiles) =>
        /\ \A i \in 1..Len(out) : out[i].ok /\ out[i].kind = "Present"
        /\ nmut = 0 /\ n_files = 0 /\ n_dirs = 0

\* C5: while a file is copied, and after the copy has failed, the
\* destination path holds what it held before the copy or the complete
\* content of the source file.
C5_NoPartialFile ==
    cp.active =>
        LET n == fs["tgt"][cp.path]
            full == Metadata(fs["src"], cp.path).node.data
        IN  \/ n.kind = cp.prev.kind /\ n.data = cp.prev.data
            \/ n.kind = "file" /\ n.data = full

\* The path of the entry CopyCmd::run is dealing with.
HasCur ==
    \/ spc \in {"copy_open", "copy_write"}
    \/ spc = "loop" /\ n_seen < Len(out) /\ out[n_seen + 1].ok
CurPath ==
    IF spc \in {"copy_open", "copy_write"} THEN cp.path
    ELSE EntryPath(out[n_seen + 1])

\* C9: the first error (an error item of the diff or a failed file system
\* call) makes CopyCmd::run return; the step that meets it changes nothing
\* outside the entry it is dealing with, so what earlier entries changed
\* stays, and no step after it changes the file system.
C9_StopAtFirstError ==
    [][/\ erred => fs' = fs
       /\ erred' => spc' = "failed"
       /\ (~erred /\ erred') =>
             \A p \in PhysPaths :
                 fs'["tgt"][p] # fs["tgt"][p] =>
                     HasCur /\ (IsUnder(p, CurPath) \/ p = Parent(CurPath))]_vars

\* The run failed after it had changed the target, with entries of the
\* walks still to come.
C9_Witness ==
    /\ spc = "failed" /\ erred /\ run = 1 /\ nmut >= 1 /\ n_seen >= 2
    /\ (work["src"] # <<>> \/ chan["src"] # <<>> \/ s_cur.some)

\* CopyCmd::run has an entry of the diff to deal with.
HasEntry == spc = "loop" /\ n_seen < Len(out) /\ out[n_seen + 1].ok

\* C17: the step that deals with a Removed entry changes neither tree,
\* counts no file and no directory, and goes on to the next entry.
C17_RemovedUntouched ==
    [][(HasEntry /\ out[n_seen + 1].kind = "Removed" /\ n_seen' # n_seen) =>
          /\ fs' = fs /\ nmut' = nmut
          /\ n_files' = n_files /\ n_dirs' = n_dirs
          /\ spc' = "loop" /\ erred' = erred]_vars

\* A first run that ended well, with a Removed entry whose path is still
\* in the destination.
C17_Witness ==
    /\ spc = "done" /\ run = 1
    /\ \E i \in 1..Len(out) :
          /\ out[i].ok /\ out[i].kind = "Removed"
          /\ fs["tgt"][out[i].tgt.path].kind # "none"

\* C20: ensure_dest comes before both walks and every entry.  A
\* destination that is a directory is left as it is, one that is absent
\* is created as a directory (or the creation fails), and for one that is
\* something else CopyCmd::run returns the error, with nothing changed and
\* no walk started.
C20_EnsureDestFirst ==
    [][/\ spc = "ensure" =>
             /\ n_seen = 0 /\ out = <<>> /\ work = [s \in Sides |-> <<>>]
             /\ \A s \in Sides : wpc[s] = "idle"
       /\ (spc = "ensure" /\ spc' # "ensure") =>
             LET k == fs["tgt"][<<>>].kind
             IN  CASE k = "dir" -> fs' = fs /\ spc' = "loop"
                   [] k = "none" ->
                        \/ /\ spc' = "loop"
                           /\ fs'["tgt"][<<>>].kind = "dir"
                           /\ \A p \in PhysPaths \ {<<>>} : fs'["tgt"][p] = fs["tgt"][p]
                           /\ fs'["src"] = fs["src"]
                        \/ fs' = fs /\ spc' = "failed"
                   [] OTHER ->
                        /\ fs' = fs /\ spc' = "failed" /\ erred'
                        /\ work' = work /\ wpc' = wpc /\ out' = out
       /\ (spc' = "loop" /\ spc # "loop") => fs'["tgt"][<<>>].kind = "dir"]_vars

\* CopyCmd::run returned an error for a destination that is a regular
\* file, before any walk.
C20_Witness ==
    /\ spc = "failed" /\ erred /\ fs["tgt"][<<>>].kind = "file"
    /\ nmut = 0 /\ out = <<>> /\ \A s \in Sides : wpc[s] = "idle"

\* The entry CopyCmd::run has to deal with, its path and the types of that
\* path in the source tree and in the destination tree.
CurEntry == out[n_seen + 1]
SrcType(p) == TypeOf(NodeAt(fs["src"], p).kind)
TgtType(p) == TypeOf(NodeAt(fs["tgt"], p).kind)

\* C18: for a Modified entry with ch_type the loop body, when no file
\* system call fails for a reason of its own, removes what the destination
\* holds at the path (with all below it) and then, for a source directory,
\* creates the directory, counts it and goes on to the next entry, and for
\* a source file goes on to copy it.
C18_TypeChangeReplaces ==
    (HasEntry /\ CurEntry.kind = "Modified" /\ CurEntry.ch_type) =>
        LET p == EntryPath(CurEntry)
            Gone(tree) == \A q \in PhysPaths : (IsUnder(q, p) /\ q # p) => tree[q].kind = "none"
        IN  CASE SrcType(p) = "dir" /\ TgtType(p) \in {"file", "dir"} ->
                   \E o \in Handle(CurEntry, fs["tgt"]) :
                       /\ o.st = "next" /\ o.dd = 1
                       /\ o.tree[p].kind = "dir" /\ Gone(o.tree)
              [] SrcType(p) = "file" /\ TgtType(p) \in {"file", "dir"} ->
                   \E o \in Handle(CurEntry, fs["tgt"]) :
                       /\ o.st = "copy" /\ o.dd = 0
                       /\ o.tree[p].kind = "none" /\ Gone(o.tree)
              [] OTHER -> TRUE

\* CopyCmd::run is dealing with an entry that has a source side, and the
\* source tree holds a symbolic link at its path.
CurSourceUnsupported ==
    /\ HasCur /\ SrcType(CurPath) = "symlink"
    /\ spc = "loop" => CurEntry.kind # "Removed"

\* C19: when CopyCmd::run is done with an entry whose source side is
\* neither a regular file nor a directory, it has returned an error and
\* has copied no file and created no directory for it.
C19_UnsupportedSourceFails ==
    [][(CurSourceUnsupported /\ n_seen' # n_seen) =>
            /\ spc' = "failed" /\ erred'
            /\ n_files' = n_files /\ n_dirs' = n_dirs]_vars

\* CopyCmd::run calls fs::create_dir or fs::copy for entry e.
CreatesOrCopies(e) ==
    \/ e.kind = "Added" /\ (is_directory(e.src) \/ is_file(e.src))
    \/ e.kind = "Modified" /\ ((e.ch_type /\ is_directory(e.src)) \/ is_file(e.src))

\* C24: whenever CopyCmd::run is about to create a directory or to copy a
\* file at path p of the destination, and while it copies, the parent
\* directory of p exists in the destination.
C24_ParentExists ==
    /\ (spc = "loop" /\ n_seen < Len(out) /\ CurEntry.ok /\ CreatesOrCopies(CurEntry))
          => HasParent(fs["tgt"], CurPath)
    /\ spc \in {"copy_open", "copy_write"} => HasParent(fs["tgt"], cp.path)

\* A file is being copied into a directory that this run created.
C24_Witness ==
    /\ spc = "copy_open" /\ run = 1
    /\ Len(cp.path) = 2 /\ n_dirs >= 1
    /\ NodeAt(fs["tgt"], Parent(cp.path)).mtime = Now

---------------------------------------------------------------------------
(* The Stack on its own (stack.rs) *)

\* The values pushed (the tests push i32).
Items == {1, 2, 3}

Call(op, arg, ret, b) == [op |-> op, arg |-> arg, ret |-> ret, b |-> b]

Idle ==
    UNCHANGED <<envvars, wvars, cvars, dvars, svars>>

\* stack.push(x)
StackPush ==
    /\ Len(calls) < MaxCalls
    /\ \E x \in Items :
          /\ stack' = push(stack, x)
          /\ calls' = Append(calls, Call("push", x, <<>>, FALSE))
    /\ Idle

\* stack.pop()
StackPop ==
    /\ Len(calls) < MaxCalls
    /\ stack' = pop(stack).stack
    /\ calls' = Append(calls, Call("pop", 0, pop(stack).ret, FALSE))
    /\ Idle

\* stack.peek(), on &self
StackPeek ==
    /\ Len(calls) < MaxCalls
    /\ calls' = Append(calls, Call("peek", 0, peek(stack), FALSE))
    /\ UNCHANGED stack
    /\ Idle

\* stack.is_empty(), on &self
StackIsEmpty ==
    /\ Len(calls) < MaxCalls
    /\ calls' = Append(calls, Call("is_empty", 0, <<>>, is_empty(stack)))
    /\ UNCHANGED stack
    /\ Idle

\* A new Stack; nothing else runs.
InitStack ==
    /\ stack = new
    /\ calls = <<>>
    /\ fs = [s \in Sides |-> EmptyTree]
    /\ cwd = "else"
    /\ cfg \in {c \in WalkConfigs : ~c.follow_symlinks /\ c.include_hidden /\ c.dirs = "First"}
    /\ work = [s \in Sides |-> <<>>]
    /\ pend = [s \in Sides |-> NoItem]
    /\ wpc = [s \in Sides |-> "idle"]
    /\ chan = [s \in Sides |-> <<>>]
    /\ rx = [s \in Sides |-> "dropped"]
    /\ sent = [s \in Sides |-> <<>>]
    /\ out = <<>>
    /\ eos = FALSE
    /\ s_cur = None
    /\ t_cur = None
    /\ dpc = "idle"
    /\ NoCopyCmd

NextStack == StackPush \/ StackPop \/ StackPeek \/ StackIsEmpty

SpecStack == InitStack /\ [][NextStack]_vars

\* The indices in calls, oldest first, of the pushes among the first n
\* calls whose element no later one of these calls has popped: a pop takes
\* the most recent of them, if there is one.
RECURSIVE Unpopped(_)
Unpopped(n) ==
    IF n = 0 THEN <<>>
    ELSE LET u == Unpopped(n - 1)
         IN  CASE calls[n].op = "push" -> Append(u, n)
               [] calls[n].op = "pop" /\ u # <<>> -> SubSeq(u, 1, Len(u) - 1)
               [] OTHER -> u

\* The most recently pushed element not yet popped after the first n
\* calls, as an Option.
LastUnpopped(n) ==
    LET u == Unpopped(n)
    IN  IF u = <<>> THEN <<>> ELSE <<calls[u[Len(u)]].arg>>

\* C26: after any sequence of calls, every pop and every peek returned the
\* most recently pushed element not yet popped (None when there was none),
\* a pop removed it and a peek did not, every is_empty returned true
\* exactly when every pushed element had been popped, and so does
\* is_empty now.
C26_LastInFirstOut ==
    /\ \A i \in 1..Len(calls) :
          /\ calls[i].op \in {"pop", "peek"} => calls[i].ret = LastUnpopped(i - 1)
          /\ calls[i].op = "is_empty" => calls[i].b = (Unpopped(i - 1) = <<>>)
    /\ is_empty(stack) = (Unpopped(Len(calls)) = <<>>)
    /\ peek(stack) = LastUnpopped(Len(calls))

\* Two different elements were pushed, peeked at, popped in reverse order,
\* and a further pop returned None.
C26_Witness ==
    /\ Len(calls) = 6
    /\ calls[1].op = "push" /\ calls[2].op = "push" /\ calls[1].arg # calls[2].arg
    /\ calls[3].op = "peek" /\ calls[3].ret = <<calls[2].arg>>
    /\ calls[4].op = "pop" /\ calls[4].ret = <<calls[2].arg>>
    /\ calls[5].op = "pop" /\ calls[5].ret = <<calls[1].arg>>
    /\ calls[6].op = "pop" /\ calls[6].ret = <<>>
    /\ is_empty(stack)

====
